---- MODULE Spec2Model ----
(***************************************************************************)
(* LyriaClient (src/lyria_client.py): a background asyncio loop thread     *)
(* that owns the remote music stream, a real-time audio callback that      *)
(* drains the playback deque, and caller threads that submit coroutines.   *)
(*                                                                         *)
(* Audio bytes are modelled as their 1-based position in the stream of     *)
(* pushed bytes (the first byte ever pushed is 1, the next 2, ...), so     *)
(* order, loss and duplication are visible; 0 is the padding byte b"\x00". *)
(*                                                                         *)
(* A coroutine runs without interruption by other coroutines from one      *)
(* await to the next; every await of the remote stream or of a timer is a  *)
(* point where the loop may run other tasks.  The audio callback runs on   *)
(* its own thread: each access of the shared deque is a step of its own.   *)
(***************************************************************************)
EXTENDS Integers, Sequences, FiniteSets, TLC

\* ------------------------------------------------------------------ bounds
MaxFrames == 2
MaxChunkLen == 3
MaxBytes == 8
MaxPulls == 3
MaxTasks == 5
MaxStreams == 2
MaxRTBytes == 6
MaxRTPulls == 2
MaxResets == 1
MaxLifeTasks == 2
MaxLifeConnects == 1
MaxSerialTasks == 2
MaxReconnectTasks == 1
MaxPlayBytes == 3
MaxCloseTasks == 1
MaxClosePulls == 1
MaxToneFrames == 1
MaxMixBytes == 7
MaxMixPulls == 2

\* ------------------------------------------------------- program constants
channels == 2
sample_width == 2

VARIABLES
  playback_buffer,   \* self._playback_buffer: deque of chunks (each a byte sequence)
  all_audio_bytes,   \* self._all_audio_bytes: bytearray
  cb_pc,             \* position of the sounddevice callback thread in _audio_callback
  bytes_needed,      \* local of _audio_callback
  current_data,      \* local of _audio_callback
  outdata,           \* the frame buffer the last completed callback filled
  session,           \* self.session: 0 is None, else the id of a remote stream
  session_manager,   \* self._session_manager: 0 is None, else the id of a remote stream
  is_connected,      \* self.is_connected
  is_playing,        \* self.is_playing
  audio_enabled,     \* self.audio_enabled
  playback_stream,   \* self._playback_stream: "none" | "started" | "closed"
  current_prompts,   \* self._current_prompts
  loop,              \* self._loop: "running" | "stopped"
  tasks,             \* the coroutines submitted to the loop, in submission order
  streams,           \* streams[s]: state of the remote stream of connect attempt s
  recv,              \* recv[s]: the _receive_audio task created by connect attempt s
  close_pc,          \* position of the caller thread inside close()
  nextByte,          \* history: position the next pushed byte gets
  pulled,            \* history of SpecFifo and SpecMix: concatenation of the completed callbacks' outputs
  pulls,             \* history: number of callbacks begun
  clear_mark,        \* history: bytes pushed before the last _playback_buffer.clear()
  cb_mark,           \* history: clear_mark when the callback in progress (or last) began
  phase,             \* scenario: "push" then "pull" in SpecFifo, "mixed" in SpecMix, else "free"
  wav_args,          \* the arguments of a call of create_wav_header (<<>>: no call)
  header,            \* what that call returned: its bytes, or that struct.error was raised
  inbound,           \* inbound[s]: lengths of the chunks stream s sent that await the receive task
  reset_mark,        \* history: bytes pushed before the last reset ran or recording was cleared
  cb_began           \* history of SpecFifo and SpecMix: what the callback in progress (or last) found

audio_vars == <<playback_buffer, all_audio_bytes, cb_pc, bytes_needed, current_data,
                outdata, nextByte, pulled, pulls, clear_mark, cb_mark>>
flag_vars == <<is_connected, is_playing, audio_enabled, playback_stream, current_prompts>>
ctl_vars == <<session, session_manager, loop, tasks, streams, recv, close_pc>>
wav_vars == <<wav_args, header>>
vars == <<audio_vars, flag_vars, ctl_vars, phase, wav_vars, inbound, reset_mark, cb_began>>

\* ----------------------------------------------------------------- values
Prompts == {<<"techno">>, <<"jazz">>}
Configs == {"bpm", "unknown_option"}

Zeros(k) == [i \in 1..k |-> 0]
Bytes(from, len) == [i \in 1..len |-> from + i - 1]
SubSeqFrom(s, i) == SubSeq(s, i, Len(s))

RECURSIVE Flatten(_)
Flatten(q) == IF q = <<>> THEN <<>> ELSE Head(q) \o Flatten(Tail(q))

\* ------------------------------------------------------ _audio_callback
\* line 85: bytes_needed = frames * self.channels * 2
BytesNeeded(frames) == frames * channels * sample_width

\* The sink calls back only while the OutputStream is started.
SinkRunning == playback_stream = "started"

\* What a callback finds when it begins: the bytes queued, and the position the
\* next pushed byte gets.
Found == [queued |-> Len(Flatten(playback_buffer)), next |-> nextByte]

\* lines 85-86
CbStart(frames) ==
  /\ cb_pc = "idle"
  /\ SinkRunning
  /\ pulls < MaxPulls
  /\ bytes_needed' = BytesNeeded(frames)
  /\ current_data' = <<>>
  /\ cb_pc' = "loop"
  /\ pulls' = pulls + 1
  /\ cb_mark' = clear_mark
  /\ cb_began' = IF phase = "free" THEN cb_began ELSE Found
  /\ UNCHANGED <<playback_buffer, all_audio_bytes, outdata, nextByte, pulled, clear_mark>>
  /\ UNCHANGED <<flag_vars, ctl_vars, phase, wav_vars, inbound, reset_mark>>

\* line 88: the loop test reads the deque
LoopTest == Len(current_data) < bytes_needed /\ playback_buffer # <<>>

CbLoopTest ==
  /\ cb_pc = "loop"
  /\ cb_pc' = IF LoopTest THEN "pop" ELSE "fix"
  /\ UNCHANGED <<playback_buffer, all_audio_bytes, bytes_needed, current_data, outdata,
                 nextByte, pulled, pulls, clear_mark, cb_mark>>
  /\ UNCHANGED <<flag_vars, ctl_vars, phase, wav_vars, inbound, reset_mark, cb_began>>

\* lines 89-90: popleft raises IndexError on a deque that was emptied since the test
CbPop ==
  /\ cb_pc = "pop"
  /\ IF playback_buffer = <<>>
       THEN /\ cb_pc' = "raised"
            /\ UNCHANGED <<playback_buffer, current_data>>
       ELSE /\ current_data' = current_data \o Head(playback_buffer)
            /\ playback_buffer' = Tail(playback_buffer)
            /\ cb_pc' = "loop"
  /\ UNCHANGED <<all_audio_bytes, bytes_needed, outdata, nextByte, pulled, pulls,
                 clear_mark, cb_mark>>
  /\ UNCHANGED <<flag_vars, ctl_vars, phase, wav_vars, inbound, reset_mark, cb_began>>

\* lines 92-98: what the callback hands to the device
Framed(data, n) ==
  IF Len(data) < n THEN data \o Zeros(n - Len(data)) ELSE SubSeq(data, 1, n)

\* A remainder put back with append instead of appendleft.
PutBack_AtBack(buf, data, n) ==
  IF Len(data) > n THEN buf \o <<SubSeqFrom(data, n + 1)>> ELSE buf

\* lines 95-97: the deque after the remainder is put back
PutBack(buf, data, n) ==
  IF Len(data) > n THEN <<SubSeqFrom(data, n + 1)>> \o buf ELSE buf

\* lines 92-100
CbFix ==
  /\ cb_pc = "fix"
  /\ playback_buffer' = PutBack(playback_buffer, current_data, bytes_needed)
  /\ current_data' = Framed(current_data, bytes_needed)
  /\ outdata' = current_data'
  /\ pulled' = IF phase = "free" THEN pulled ELSE pulled \o current_data'
  /\ cb_pc' = "idle"
  /\ UNCHANGED <<all_audio_bytes, bytes_needed, nextByte, pulls, clear_mark, cb_mark>>
  /\ UNCHANGED <<flag_vars, ctl_vars, phase, wav_vars, inbound, reset_mark, cb_began>>

AudioCallback == (\E f \in 1..MaxFrames : CbStart(f)) \/ CbLoopTest \/ CbPop \/ CbFix

\* ------------------------------------------------------- the event loop
\* line 39: run_forever runs callbacks and task steps until the loop is stopped
LoopRunning == loop = "running"

\* the guard `if self.session and self.is_connected` of every control coroutine
Connected == session # 0 /\ is_connected

\* A submitted coroutine: its argument, its position, the calls it made of the
\* remote stream, what its blocked caller (if any) was told, for the composite
\* update the prompt list it read at line 159 (<<>> before that, else <<list>>),
\* and whether a call it made of the remote stream raised (history).
Task(op, arg, caller) ==
  [op |-> op, arg |-> arg, pc |-> "new", out |-> <<>>, caller |-> caller, read |-> <<>>,
   err |-> FALSE]

\* A call of the remote stream, with the state the stream was in when it was made.
Msg(m, a) == [m |-> m, a |-> a, s |-> session, st |-> streams[session]]

\* call_soon runs ready callbacks first in, first out: a submitted coroutine takes
\* its first step only after every coroutine submitted before it took its own.
CanStart(t) ==
  /\ LoopRunning
  /\ t \in 1..Len(tasks)
  /\ tasks[t].pc = "new"
  /\ \A u \in 1..(t - 1) : tasks[u].pc # "new"

At(t, op, pc) ==
  /\ LoopRunning
  /\ t \in 1..Len(tasks)
  /\ tasks[t].op = op
  /\ tasks[t].pc = pc

Goto(t, pc) == [tasks EXCEPT ![t].pc = pc]

\* An awaited call of the remote stream returned (ok) or raised into the except
\* clause of its coroutine; the coroutine runs on to pc.
Returned(t, pc, ok) == [tasks EXCEPT ![t].pc = pc, ![t].err = @ \/ ~ok]
Call(t, pc, m, a) == [tasks EXCEPT ![t].pc = pc, ![t].out = Append(@, Msg(m, a))]

\* A blocked caller (connect, close) gets the task's outcome when the task ends.
Finish(t, outcome) ==
  [tasks EXCEPT ![t].pc = IF outcome = "raised" THEN "failed" ELSE "done",
                ![t].caller = IF @ = "wait" THEN outcome ELSE @]

\* lines 129-130, 145-150, 176-177, 188-189, 199-200: run_coroutine_threadsafe
Submit(op, arg) ==
  /\ Len(tasks) < MaxTasks
  /\ tasks' = Append(tasks, Task(op, arg, "none"))
  /\ UNCHANGED <<session, session_manager, loop, streams, recv, close_pc>>
  /\ UNCHANGED <<audio_vars, flag_vars, phase, wav_vars, inbound, reset_mark, cb_began>>

\* ------------------------------------------------------- _receive_audio
\* lines 124-127: the finally block
RecvFinally(s) ==
  /\ is_playing' = FALSE
  /\ is_connected' = FALSE
  /\ recv' = [recv EXCEPT ![s].pc = "done"]

\* lines 106-107: the while test, then self.session.receive()
RecvTop(s) ==
  /\ LoopRunning
  /\ s \in 1..Len(recv)
  /\ recv[s].pc = "ready"
  /\ IF is_connected /\ session # 0
       THEN /\ recv' = [recv EXCEPT ![s].pc = "iter", ![s].on = session]
            /\ UNCHANGED <<is_playing, is_connected>>
       ELSE RecvFinally(s)
  /\ UNCHANGED <<session, session_manager, loop, tasks, streams, close_pc>>
  /\ UNCHANGED <<audio_vars, audio_enabled, playback_stream, current_prompts, phase, wav_vars, inbound, reset_mark, cb_began>>

\* A push with the chunk put at the front of the deque.
Push_AtFront(buf, chunk) == <<chunk>> \o buf

\* lines 119-120: push one chunk
Push(buf, chunk) == Append(buf, chunk)

\* lines 107-120: the iteration yields a message with one audio chunk of len bytes
RecvChunk(s, len) ==
  /\ LoopRunning
  /\ s \in 1..Len(recv)
  /\ recv[s].pc = "iter"
  /\ streams[recv[s].on] \in {"open", "closing"}
  /\ nextByte + len - 1 <= MaxBytes
  /\ IF is_connected
       THEN /\ playback_buffer' = Push(playback_buffer, Bytes(nextByte, len))
            /\ all_audio_bytes' = all_audio_bytes \o Bytes(nextByte, len)
            /\ nextByte' = nextByte + len
            /\ UNCHANGED recv
       ELSE /\ recv' = [recv EXCEPT ![s].pc = "ready"]
            /\ UNCHANGED <<playback_buffer, all_audio_bytes, nextByte>>
  /\ UNCHANGED <<cb_pc, bytes_needed, current_data, outdata, pulled, pulls, clear_mark, cb_mark>>
  /\ UNCHANGED <<session, session_manager, loop, tasks, streams, close_pc>>
  /\ UNCHANGED <<flag_vars, phase, wav_vars, reset_mark, cb_began>>

\* a message arrives and is taken by the iteration at once
RecvAudio(s, len) == RecvChunk(s, len) /\ UNCHANGED inbound

\* the remote stream sends a message with one audio chunk of len bytes; it waits
\* in the connection until the receive task's iteration takes it
Deliver(s, len) ==
  /\ s \in 1..Len(streams)
  /\ streams[s] = "open"
  /\ inbound' = [inbound EXCEPT ![s] = Append(@, len)]
  /\ UNCHANGED <<audio_vars, flag_vars, ctl_vars, phase, wav_vars, reset_mark, cb_began>>

\* lines 107-120: the iteration yields the oldest waiting message
RecvMessage(s) ==
  /\ s \in 1..Len(recv)
  /\ recv[s].pc = "iter"
  /\ inbound[recv[s].on] # <<>>
  /\ RecvChunk(s, Head(inbound[recv[s].on]))
  /\ inbound' = [inbound EXCEPT ![recv[s].on] = Tail(@)]

\* lines 107, 121: the stream's iteration ends; the loop sleeps and tests again
RecvEnd(s) ==
  /\ LoopRunning
  /\ s \in 1..Len(recv)
  /\ recv[s].pc = "iter"
  /\ recv' = [recv EXCEPT ![s].pc = "ready"]
  /\ UNCHANGED <<session, session_manager, loop, tasks, streams, close_pc>>
  /\ UNCHANGED <<audio_vars, flag_vars, phase, wav_vars, inbound, reset_mark, cb_began>>

\* lines 122-127: receive raised
RecvError(s) ==
  /\ LoopRunning
  /\ s \in 1..Len(recv)
  /\ recv[s].pc = "iter"
  /\ RecvFinally(s)
  /\ UNCHANGED <<session, session_manager, loop, tasks, streams, close_pc>>
  /\ UNCHANGED <<audio_vars, audio_enabled, playback_stream, current_prompts, phase, wav_vars, inbound, reset_mark, cb_began>>

ReceiveAudio ==
  \E s \in 1..MaxStreams :
    \/ RecvTop(s)
    \/ \E len \in 1..MaxChunkLen : RecvAudio(s, len)
    \/ RecvEnd(s)
    \/ RecvError(s)

\* lines 253-260: the tone is int(sample_rate * duration) sample frames, each one
\* 16-bit sample for either of the two channels
ToneLen(tone_frames) == tone_frames * 2 * sample_width

\* lines 249-251: test_audio appends the tone to the deque from the caller thread,
\* connected or not; the tone is not recorded in the accumulator
TestAudio(tone_frames) ==
  /\ nextByte + ToneLen(tone_frames) - 1 <= MaxBytes
  /\ playback_buffer' = Push(playback_buffer, Bytes(nextByte, ToneLen(tone_frames)))
  /\ nextByte' = nextByte + ToneLen(tone_frames)
  /\ UNCHANGED <<all_audio_bytes, cb_pc, bytes_needed, current_data, outdata, pulled, pulls,
                 clear_mark, cb_mark>>
  /\ UNCHANGED <<flag_vars, ctl_vars, phase, wav_vars, inbound, reset_mark, cb_began>>

\* src/app.py line 292: the Clear Recording button empties the accumulator from
\* the caller thread
ClearRecording ==
  /\ all_audio_bytes' = <<>>
  /\ reset_mark' = nextByte - 1
  /\ UNCHANGED <<playback_buffer, cb_pc, bytes_needed, current_data, outdata, nextByte,
                 pulled, pulls, clear_mark, cb_mark>>
  /\ UNCHANGED <<flag_vars, ctl_vars, phase, wav_vars, inbound, cb_began>>

\* ------------------------------------------------- control coroutines
\* What no control coroutine other than connect and close touches.
CoFrame ==
  /\ UNCHANGED <<session, session_manager, loop, streams, recv, close_pc>>
  /\ UNCHANGED <<cb_pc, bytes_needed, current_data, outdata, nextByte, pulled, pulls, cb_mark>>
  /\ UNCHANGED <<audio_enabled, playback_stream, phase, wav_vars, inbound, cb_began>>

\* lines 133-140: _set_prompts_async up to its await
SetPromptsCall(t, prompts) ==
  IF Connected
    THEN /\ current_prompts' = prompts
         /\ tasks' = Call(t, "prompts_wait", "set_prompts", prompts)
    ELSE /\ tasks' = Goto(t, "done")
         /\ UNCHANGED current_prompts

\* lines 166-174: _set_config_async up to its await; the constructor of line 169
\* raises on an unrecognized option, which lines 172-174 catch
SetConfigCall(t, config, wait, skip) ==
  IF Connected
    THEN IF config = "unknown_option"
           THEN /\ is_connected' = FALSE
                /\ tasks' = Goto(t, skip)
           ELSE /\ tasks' = Call(t, wait, "set_config", config)
                /\ UNCHANGED is_connected
    ELSE /\ tasks' = Goto(t, skip)
         /\ UNCHANGED is_connected

\* lines 207-209: the local buffers are cleared
ClearedBuffer == <<>>

\* lines 203-213: _reset_async up to its await
ResetCall(t, wait, skipped) ==
  IF Connected
    THEN /\ playback_buffer' = ClearedBuffer
         /\ all_audio_bytes' = <<>>
         /\ clear_mark' = nextByte - 1
         /\ reset_mark' = nextByte - 1
         /\ tasks' = Call(t, wait, "reset_context", "")
    ELSE /\ tasks' = skipped
         /\ reset_mark' = nextByte - 1
         /\ UNCHANGED <<playback_buffer, all_audio_bytes, clear_mark>>

\* A call that returned marks the connection alive again.
AfterCall_MarksAlive(ok) == ok

\* The prompts sent again without the test of line 159.
ShouldReapply_Always(prompts) == TRUE

\* line 159: `if self._current_prompts`
ShouldReapply(prompts) == prompts # <<>>

\* lines 159-161: the prompts are sent again
Reapply(t, ok) ==
  /\ UNCHANGED current_prompts
  /\ tasks' = [(IF ShouldReapply(current_prompts) /\ Connected
                  THEN Call(t, "prompts_wait", "set_prompts", current_prompts)
                  ELSE Goto(t, "done"))
               EXCEPT ![t].read = <<current_prompts>>, ![t].err = @ \/ ~ok]

\* lines 141-143, 172-174, 184-186: a failed call marks the connection lost
AfterCall(ok) == IF ok THEN is_connected ELSE FALSE

\* _set_prompts_async, lines 132-143
SetPromptsStart(t) ==
  /\ CanStart(t)
  /\ tasks[t].op = "set_prompts"
  /\ SetPromptsCall(t, tasks[t].arg)
  /\ UNCHANGED <<is_connected, is_playing, playback_buffer, all_audio_bytes, clear_mark, reset_mark>>
  /\ CoFrame

\* the await of line 140 returns or raises; also ends the composite (line 161)
SetPromptsReturn(t) ==
  /\ LoopRunning
  /\ t \in 1..Len(tasks)
  /\ tasks[t].pc = "prompts_wait"
  /\ \E ok \in BOOLEAN :
       /\ is_connected' = AfterCall(ok)
       /\ tasks' = Returned(t, "done", ok)
  /\ UNCHANGED <<current_prompts, is_playing, playback_buffer, all_audio_bytes, clear_mark, reset_mark>>
  /\ CoFrame

\* _set_config_async, lines 165-174
SetConfigStart(t) ==
  /\ CanStart(t)
  /\ tasks[t].op = "set_config"
  /\ SetConfigCall(t, tasks[t].arg, "config_wait", "done")
  /\ UNCHANGED <<current_prompts, is_playing, playback_buffer, all_audio_bytes, clear_mark, reset_mark>>
  /\ CoFrame

SetConfigReturn(t) ==
  /\ At(t, "set_config", "config_wait")
  /\ \E ok \in BOOLEAN :
       /\ is_connected' = AfterCall(ok)
       /\ tasks' = Returned(t, "done", ok)
  /\ UNCHANGED <<current_prompts, is_playing, playback_buffer, all_audio_bytes, clear_mark, reset_mark>>
  /\ CoFrame

\* _play_async, lines 179-186
PlayStart(t) ==
  /\ CanStart(t)
  /\ tasks[t].op = "play"
  /\ tasks' = IF Connected THEN Call(t, "play_wait", "play", "") ELSE Goto(t, "done")
  /\ UNCHANGED <<is_connected, current_prompts, is_playing, playback_buffer,
                 all_audio_bytes, clear_mark, reset_mark>>
  /\ CoFrame

PlayReturn(t) ==
  /\ At(t, "play", "play_wait")
  /\ \E ok \in BOOLEAN :
       /\ is_connected' = AfterCall(ok)
       /\ is_playing' = IF ok THEN TRUE ELSE is_playing
       /\ tasks' = Returned(t, "done", ok)
  /\ UNCHANGED <<current_prompts, playback_buffer, all_audio_bytes, clear_mark, reset_mark>>
  /\ CoFrame

\* _stop_async, lines 191-197
StopStart(t) ==
  /\ CanStart(t)
  /\ tasks[t].op = "stop"
  /\ tasks' = IF Connected THEN Call(t, "stop_wait", "stop", "") ELSE Goto(t, "done")
  /\ UNCHANGED <<is_connected, current_prompts, is_playing, playback_buffer,
                 all_audio_bytes, clear_mark, reset_mark>>
  /\ CoFrame

\* lines 195-197: an exception of stop() is swallowed
StopReturn(t) ==
  /\ At(t, "stop", "stop_wait")
  /\ is_playing' = FALSE
  /\ \E ok \in BOOLEAN : tasks' = Returned(t, "done", ok)
  /\ UNCHANGED <<is_connected, current_prompts, playback_buffer, all_audio_bytes, clear_mark, reset_mark>>
  /\ CoFrame

\* _reset_async, lines 202-221
ResetStart(t) ==
  /\ CanStart(t)
  /\ tasks[t].op = "reset"
  /\ ResetCall(t, "reset_wait", Goto(t, "done"))
  /\ UNCHANGED <<is_connected, current_prompts, is_playing>>
  /\ CoFrame

\* lines 213-219: reset_context returns (then the pause of line 217) or raises
ResetReturn(t) ==
  /\ At(t, "reset", "reset_wait")
  /\ \E ok \in BOOLEAN : tasks' = Returned(t, IF ok THEN "reset_sleep" ELSE "done", ok)
  /\ UNCHANGED <<is_connected, current_prompts, is_playing, playback_buffer,
                 all_audio_bytes, clear_mark, reset_mark>>
  /\ CoFrame

ResetWake(t) ==
  /\ At(t, "reset", "reset_sleep")
  /\ tasks' = Goto(t, "done")
  /\ UNCHANGED <<is_connected, current_prompts, is_playing, playback_buffer,
                 all_audio_bytes, clear_mark, reset_mark>>
  /\ CoFrame

\* _update_config_and_reset_async, lines 152-163
\* line 154, through to the await inside _set_config_async or to the sleep of line 155
UpdateStart(t) ==
  /\ CanStart(t)
  /\ tasks[t].op = "update"
  /\ SetConfigCall(t, tasks[t].arg, "u_config_wait", "u_sleep")
  /\ UNCHANGED <<current_prompts, is_playing, playback_buffer, all_audio_bytes, clear_mark, reset_mark>>
  /\ CoFrame

\* the config call returns or raises; line 155 sleeps
UpdateConfigReturn(t) ==
  /\ At(t, "update", "u_config_wait")
  /\ \E ok \in BOOLEAN :
       /\ is_connected' = AfterCall(ok)
       /\ tasks' = Returned(t, "u_sleep", ok)
  /\ UNCHANGED <<current_prompts, is_playing, playback_buffer, all_audio_bytes, clear_mark, reset_mark>>
  /\ CoFrame

\* the sleep of line 155 is over; line 156 (a skipped reset runs on to line 159,
\* where _set_prompts_async is skipped by the same guard)
UpdateReset(t) ==
  /\ At(t, "update", "u_sleep")
  /\ ResetCall(t, "u_reset_wait", [Goto(t, "done") EXCEPT ![t].read = <<current_prompts>>])
  /\ UNCHANGED <<is_connected, current_prompts, is_playing>>
  /\ CoFrame

\* reset_context returns (pause of line 217) or raises (on to line 159)
UpdateResetReturn(t) ==
  /\ At(t, "update", "u_reset_wait")
  /\ \E ok \in BOOLEAN :
       IF ok THEN tasks' = Goto(t, "u_reset_sleep") /\ UNCHANGED current_prompts
             ELSE Reapply(t, FALSE)
  /\ UNCHANGED <<is_connected, is_playing, playback_buffer, all_audio_bytes, clear_mark, reset_mark>>
  /\ CoFrame

\* the pause of line 217 is over; lines 159-163
UpdateReapply(t) ==
  /\ At(t, "update", "u_reset_sleep")
  /\ Reapply(t, TRUE)
  /\ UNCHANGED <<is_connected, is_playing, playback_buffer, all_audio_bytes, clear_mark, reset_mark>>
  /\ CoFrame

\* ------------------------------------------------------------- connect
\* the connect() calls made
Connects == Cardinality({t \in 1..Len(tasks) : tasks[t].op = "connect"})

\* lines 41-44: connect() submits _connect_async and blocks on its result
ConnectSubmit ==
  /\ Len(tasks) < MaxTasks
  /\ Connects < MaxStreams
  /\ tasks' = Append(tasks, Task("connect", 0, "wait"))
  /\ UNCHANGED <<session, session_manager, loop, streams, recv, close_pc>>
  /\ UNCHANGED <<audio_vars, flag_vars, phase, wav_vars, inbound, reset_mark, cb_began>>

\* line 44: future.result(timeout=10) raises TimeoutError; the coroutine stays
\* scheduled.  Ten seconds pass only while the coroutine awaits the stream or its
\* sleep, or when the loop was stopped before it could start.
ConnectTimeout(t) ==
  /\ t \in 1..Len(tasks)
  /\ tasks[t].op = "connect"
  /\ tasks[t].caller = "wait"
  /\ \/ tasks[t].pc \in {"enter_wait", "connect_sleep"}
     \/ tasks[t].pc = "new" /\ ~LoopRunning
  /\ tasks' = [tasks EXCEPT ![t].caller = "timeout"]
  /\ UNCHANGED <<session, session_manager, loop, streams, recv, close_pc>>
  /\ UNCHANGED <<audio_vars, flag_vars, phase, wav_vars, inbound, reset_mark, cb_began>>

\* lines 48-51: the stream is asked for, up to the await of __aenter__
ConnectStart(t) ==
  /\ CanStart(t)
  /\ tasks[t].op = "connect"
  /\ streams' = Append(streams, "entering")
  /\ recv' = Append(recv, [pc |-> "none", on |-> 0])
  /\ inbound' = Append(inbound, <<>>)
  /\ session_manager' = Len(streams) + 1
  /\ tasks' = [tasks EXCEPT ![t].pc = "enter_wait", ![t].arg = Len(streams) + 1]
  /\ UNCHANGED <<session, loop, close_pc>>
  /\ UNCHANGED <<audio_vars, flag_vars, phase, wav_vars, reset_mark, cb_began>>

\* lines 51-56 (the stream is open) or 58-61 (__aenter__ raised)
ConnectEntered(t) ==
  /\ At(t, "connect", "enter_wait")
  /\ \E ok \in BOOLEAN :
       IF ok
         THEN /\ streams' = [streams EXCEPT ![tasks[t].arg] = "open"]
              /\ session' = tasks[t].arg
              /\ is_connected' = TRUE
              /\ tasks' = Goto(t, "connect_sleep")
         ELSE /\ streams' = [streams EXCEPT ![tasks[t].arg] = "failed"]
              /\ is_connected' = FALSE
              /\ tasks' = Finish(t, "raised")
              /\ UNCHANGED session
  /\ UNCHANGED <<session_manager, loop, recv, close_pc>>
  /\ UNCHANGED <<audio_vars, is_playing, audio_enabled, playback_stream, current_prompts, phase, wav_vars, inbound, reset_mark, cb_began>>

\* _connect_async with the sink opened inside the first try block: a device that
\* cannot be opened fails the connect.
ConnectWake_SinkFatal(t) ==
  /\ At(t, "connect", "connect_sleep")
  /\ recv' = [recv EXCEPT ![tasks[t].arg].pc = "ready"]
  /\ \E ok \in BOOLEAN :
       /\ audio_enabled' = ok
       /\ playback_stream' = IF ok THEN "started" ELSE "none"
       /\ is_connected' = IF ok THEN is_connected ELSE FALSE
       /\ tasks' = Finish(t, IF ok THEN "ok" ELSE "raised")
  /\ UNCHANGED <<session, session_manager, loop, streams, close_pc>>
  /\ UNCHANGED <<audio_vars, is_playing, current_prompts, phase, wav_vars, inbound, reset_mark, cb_began>>

\* lines 57, 63-78: the receive task is created, then the audio sink is opened
ConnectWake(t) ==
  /\ At(t, "connect", "connect_sleep")
  /\ recv' = [recv EXCEPT ![tasks[t].arg].pc = "ready"]
  /\ \E ok \in BOOLEAN :
       /\ audio_enabled' = ok
       /\ playback_stream' = IF ok THEN "started" ELSE "none"
  /\ tasks' = Finish(t, "ok")
  /\ UNCHANGED <<session, session_manager, loop, streams, close_pc>>
  /\ UNCHANGED <<audio_vars, is_connected, is_playing, current_prompts, phase, wav_vars, inbound, reset_mark, cb_began>>

\* --------------------------------------------------------------- close
CloseTask == CHOOSE t \in 1..Len(tasks) : tasks[t].op = "close"

\* lines 263-275: the flags, the sink (stop() waits for a callback in progress),
\* and the submission of _close_async
CloseBegin ==
  /\ close_pc = "idle"
  /\ cb_pc \in {"idle", "raised"}
  /\ is_connected' = FALSE
  /\ is_playing' = FALSE
  /\ playback_stream' = IF playback_stream = "started" THEN "closed" ELSE playback_stream
  /\ tasks' = Append(tasks, Task("close", 0, "wait"))
  /\ close_pc' = "waiting"
  /\ UNCHANGED <<session, session_manager, loop, streams, recv>>
  /\ UNCHANGED <<audio_vars, audio_enabled, current_prompts, phase, wav_vars, inbound, reset_mark, cb_began>>

\* lines 282-284: __aexit__ is awaited on an open stream; on a manager that was
\* never entered it raises at once (lines 286-289)
CloseAsyncStart(t) ==
  /\ CanStart(t)
  /\ tasks[t].op = "close"
  /\ IF session # 0 /\ session_manager # 0
       THEN IF streams[session_manager] = "open"
              THEN /\ streams' = [streams EXCEPT ![session_manager] = "closing"]
                   /\ tasks' = [tasks EXCEPT ![t].pc = "exit_wait", ![t].arg = session_manager]
                   /\ UNCHANGED <<session, session_manager>>
              ELSE /\ session' = 0
                   /\ session_manager' = 0
                   /\ tasks' = Finish(t, "ok")
                   /\ UNCHANGED streams
       ELSE /\ tasks' = Finish(t, "ok")
            /\ UNCHANGED <<session, session_manager, streams>>
  /\ UNCHANGED <<loop, recv, close_pc>>
  /\ UNCHANGED <<audio_vars, flag_vars, phase, wav_vars, inbound, reset_mark, cb_began>>

\* _close_async without line 288: self.session keeps the stream that was torn down.
CloseAsyncExited_KeepsSession(t) ==
  /\ At(t, "close", "exit_wait")
  /\ streams' = [streams EXCEPT ![tasks[t].arg] = "closed"]
  /\ session_manager' = 0
  /\ tasks' = Finish(t, "ok")
  /\ UNCHANGED <<session, loop, recv, close_pc>>
  /\ UNCHANGED <<audio_vars, flag_vars, phase, wav_vars, inbound, reset_mark, cb_began>>

\* lines 284-289: __aexit__ returned or raised
CloseAsyncExited(t) ==
  /\ At(t, "close", "exit_wait")
  /\ streams' = [streams EXCEPT ![tasks[t].arg] = "closed"]
  /\ session' = 0
  /\ session_manager' = 0
  /\ tasks' = Finish(t, "ok")
  /\ UNCHANGED <<loop, recv, close_pc>>
  /\ UNCHANGED <<audio_vars, flag_vars, phase, wav_vars, inbound, reset_mark, cb_began>>

\* line 275: result(timeout=5) raises TimeoutError out of close() when the remote
\* teardown takes longer
CloseTimeout ==
  /\ close_pc = "waiting"
  /\ tasks[CloseTask].caller = "wait"
  /\ tasks[CloseTask].pc = "exit_wait"
  /\ tasks' = [tasks EXCEPT ![CloseTask].caller = "timeout"]
  /\ close_pc' = "raised"
  /\ UNCHANGED <<session, session_manager, loop, streams, recv>>
  /\ UNCHANGED <<audio_vars, flag_vars, phase, wav_vars, inbound, reset_mark, cb_began>>

\* close() with the loop stopped without the wait of line 275 for _close_async.
CloseStop_NoWait ==
  /\ close_pc = "waiting"
  /\ loop' = "stopped"
  /\ close_pc' = "returned"
  /\ UNCHANGED <<session, session_manager, tasks, streams, recv>>
  /\ UNCHANGED <<audio_vars, flag_vars, phase, wav_vars, inbound, reset_mark, cb_began>>

\* lines 275-279: the result arrived; the loop is stopped and the thread joined
CloseStop ==
  /\ close_pc = "waiting"
  /\ tasks[CloseTask].caller = "ok"
  /\ loop' = "stopped"
  /\ close_pc' = "returned"
  /\ UNCHANGED <<session, session_manager, tasks, streams, recv>>
  /\ UNCHANGED <<audio_vars, flag_vars, phase, wav_vars, inbound, reset_mark, cb_began>>

\* --------------------------------------------------- create_wav_header
\* struct.pack writes unsigned integers of 16 bits ('<H') and 32 bits ('<I'), low
\* byte first, and raises struct.error for a value out of range.  A length is held
\* as two 16-bit halves (its value is hi * 65536 + lo), so that payloads of 2^32
\* bytes and more can be written down.
Half == 65536
Wide(n) == [hi |-> n \div Half, lo |-> n % Half]
Plus(v, k) == [hi |-> v.hi + (v.lo + k) \div Half, lo |-> (v.lo + k) % Half]
FitsH(n) == n \in 0..(Half - 1)
FitsI(v) == v.hi \in 0..(Half - 1)
PackH(n) == <<n % 256, n \div 256>>
PackI(v) == PackH(v.lo) \o PackH(v.hi)

\* b'RIFF', b'WAVEfmt ', b'data'
RIFF == <<82, 73, 70, 70>>
WAVEfmt == <<87, 65, 86, 69, 102, 109, 116, 32>>
DATA == <<100, 97, 116, 97>>

Returns(bytes) == [raised |-> FALSE, bytes |-> bytes]
Raises == [raised |-> TRUE, bytes |-> <<>>]

\* the header with a RIFF size field that leaves out the 36 header bytes after it
Fields_NoHeaderBytes(pcm_length, sample_rate, nch) ==
  LET bits_per_sample == 16
      byte_rate == (sample_rate * nch * bits_per_sample) \div 8
      block_align == (nch * bits_per_sample) \div 8
  IN <<pcm_length, Wide(16), 1, nch, Wide(sample_rate), Wide(byte_rate),
       block_align, bits_per_sample, pcm_length>>

\* lines 231-246: the nine numbers packed, in the order they are packed
Fields(pcm_length, sample_rate, nch) ==
  LET bits_per_sample == 16
      byte_rate == (sample_rate * nch * bits_per_sample) \div 8
      block_align == (nch * bits_per_sample) \div 8
  IN <<Plus(pcm_length, 36), Wide(16), 1, nch, Wide(sample_rate), Wide(byte_rate),
       block_align, bits_per_sample, pcm_length>>

\* lines 227-247
create_wav_header(pcm_length, sample_rate, nch) ==
  LET f == Fields(pcm_length, sample_rate, nch) IN
  IF /\ FitsI(f[1]) /\ FitsI(f[2]) /\ FitsH(f[3]) /\ FitsH(f[4]) /\ FitsI(f[5])
     /\ FitsI(f[6]) /\ FitsH(f[7]) /\ FitsH(f[8]) /\ FitsI(f[9])
    THEN Returns(RIFF \o PackI(f[1]) \o WAVEfmt \o PackI(f[2]) \o PackH(f[3])
                   \o PackH(f[4]) \o PackI(f[5]) \o PackI(f[6]) \o PackH(f[7])
                   \o PackH(f[8]) \o DATA \o PackI(f[9]))
    ELSE Raises

\* the static method is called
CreateWavHeader ==
  /\ wav_args # <<>>
  /\ header = Returns(<<>>)
  /\ header' = create_wav_header(wav_args.pcm_length, wav_args.sample_rate, wav_args.channels)
  /\ UNCHANGED <<audio_vars, flag_vars, ctl_vars, phase, wav_args, inbound, reset_mark, cb_began>>

\* ------------------------------------------------------ specifications
\* no call of the static create_wav_header
NoHeader == wav_args = <<>> /\ header = Returns(<<>>)

\* lines 16-35: the fields of the client as constructed
Constructed ==
  /\ playback_buffer = <<>>
  /\ all_audio_bytes = <<>>
  /\ cb_pc = "idle"
  /\ bytes_needed = 0
  /\ current_data = <<>>
  /\ outdata = <<>>
  /\ session = 0
  /\ session_manager = 0
  /\ is_connected = FALSE
  /\ is_playing = FALSE
  /\ audio_enabled = FALSE
  /\ playback_stream = "none"
  /\ current_prompts = <<>>
  /\ loop = "running"
  /\ tasks = <<>>
  /\ streams = <<>>
  /\ recv = <<>>
  /\ close_pc = "idle"
  /\ nextByte = 1
  /\ pulled = <<>>
  /\ pulls = 0
  /\ clear_mark = 0
  /\ cb_mark = 0
  /\ phase = "free"
  /\ inbound = <<>>
  /\ reset_mark = 0
  /\ cb_began = [queued |-> 0, next |-> 1]

Init == Constructed /\ NoHeader

\* The client after one connect() that succeeded (ConnectSubmit, ConnectStart,
\* ConnectEntered, ConnectWake from Init), its receive task inside the stream's
\* iteration (RecvTop); sink tells whether the audio device could be opened.
InitConnected(sink) ==
  /\ playback_buffer = <<>>
  /\ all_audio_bytes = <<>>
  /\ cb_pc = "idle"
  /\ bytes_needed = 0
  /\ current_data = <<>>
  /\ outdata = <<>>
  /\ session = 1
  /\ session_manager = 1
  /\ is_connected = TRUE
  /\ is_playing = FALSE
  /\ audio_enabled = sink
  /\ playback_stream = IF sink THEN "started" ELSE "none"
  /\ current_prompts = <<>>
  /\ loop = "running"
  /\ tasks = <<[Task("connect", 1, "ok") EXCEPT !.pc = "done"]>>
  /\ streams = <<"open">>
  /\ recv = <<[pc |-> "iter", on |-> 1]>>
  /\ close_pc = "idle"
  /\ nextByte = 1
  /\ pulled = <<>>
  /\ pulls = 0
  /\ clear_mark = 0
  /\ cb_mark = 0
  /\ inbound = <<<<>>>>
  /\ reset_mark = 0
  /\ cb_began = [queued |-> 0, next |-> 1]
  /\ NoHeader

\* the public methods, called from any caller thread
Callers ==
  \/ ConnectSubmit
  \/ \E p \in Prompts : Submit("set_prompts", p)
  \/ \E c \in Configs : Submit("set_config", c)
  \/ \E c \in Configs : Submit("update", c)
  \/ Submit("play", "")
  \/ Submit("stop", "")
  \/ Submit("reset", "")
  \/ CloseBegin
  \/ CloseTimeout
  \/ CloseStop
  \/ \E t \in 1..MaxTasks : ConnectTimeout(t)

ConnectSteps(t) == ConnectStart(t) \/ ConnectEntered(t) \/ ConnectWake(t)
SetPromptsSteps(t) == SetPromptsStart(t) \/ SetPromptsReturn(t)
SetConfigSteps(t) == SetConfigStart(t) \/ SetConfigReturn(t)
PlaySteps(t) == PlayStart(t) \/ PlayReturn(t)
StopSteps(t) == StopStart(t) \/ StopReturn(t)
ResetSteps(t) == ResetStart(t) \/ ResetReturn(t) \/ ResetWake(t)
UpdateSteps(t) ==
  \/ UpdateStart(t) \/ UpdateConfigReturn(t) \/ UpdateReset(t)
  \/ UpdateResetReturn(t) \/ UpdateReapply(t)
CloseSteps(t) == CloseAsyncStart(t) \/ CloseAsyncExited(t)

\* the steps of the coroutines on the loop thread
Coroutines ==
  \E t \in 1..(MaxTasks + 1) :
    \/ ConnectSteps(t) \/ SetPromptsSteps(t) \/ SetConfigSteps(t) \/ PlaySteps(t)
    \/ StopSteps(t) \/ ResetSteps(t) \/ UpdateSteps(t) \/ CloseSteps(t)

\* The whole client.
Next == Callers \/ Coroutines \/ ReceiveAudio \/ AudioCallback

Spec == Init /\ [][Next]_vars

\* The ring buffer alone: chunks are pushed by the receive task, then the audio
\* callback pulls, nothing else running.
InitFifo == InitConnected(TRUE) /\ phase = "push"

NextFifo ==
  \/ phase = "push" /\ \E len \in 1..MaxChunkLen : RecvAudio(1, len)
  \/ /\ phase = "push" /\ phase' = "pull"
     /\ UNCHANGED <<audio_vars, flag_vars, ctl_vars, wav_vars, inbound, reset_mark, cb_began>>
  \/ phase = "pull" /\ AudioCallback

SpecFifo == InitFifo /\ [][NextFifo]_vars

\* The audio callback thread against the loop thread of a connected session:
\* chunks arrive, resets are submitted, the connection may be lost.
InitRT == InitConnected(TRUE) /\ phase = "free"

NextRT ==
  \/ pulls < MaxRTPulls /\ \E f \in 1..MaxFrames : CbStart(f)
  \/ CbLoopTest
  \/ CbPop
  \/ CbFix
  \/ \E len \in 1..MaxChunkLen : nextByte + len - 1 <= MaxRTBytes /\ RecvAudio(1, len)
  \/ RecvError(1)
  \/ Len(tasks) <= MaxResets /\ Submit("reset", "")
  \/ \E t \in 1..MaxTasks : ResetSteps(t)

SpecRT == InitRT /\ [][NextRT]_vars

\* The same session with the user clearing the recording at any moment.
NextRec == NextRT \/ ClearRecording

SpecRec == InitRT /\ [][NextRec]_vars

\* the coroutines submitted other than close()'s own
Submitted == Cardinality({t \in 1..Len(tasks) : tasks[t].op # "close"})

\* The control operations of a connected session without an audio device.
InitSerial == InitConnected(FALSE) /\ phase = "free"

\* a control method is called: its coroutine is submitted to the loop
SerialSubmit ==
  \/ \E p \in Prompts : Submit("set_prompts", p)
  \/ \E c \in Configs : Submit("set_config", c)
  \/ \E c \in Configs : Submit("update", c)
  \/ Submit("play", "")
  \/ Submit("stop", "")
  \/ Submit("reset", "")

\* the steps of the control coroutines
SerialSteps ==
  \E t \in 1..MaxTasks :
    \/ SetPromptsSteps(t) \/ SetConfigSteps(t) \/ PlaySteps(t)
    \/ StopSteps(t) \/ ResetSteps(t) \/ UpdateSteps(t)

NextSerial ==
  \/ Submitted <= MaxSerialTasks /\ SerialSubmit
  \/ SerialSteps
  \/ RecvError(1)

SpecSerial == InitSerial /\ [][NextSerial]_vars

\* The life cycle: connect(), set_prompts() and close() from any caller thread.
NextLife ==
  \/ Submitted < MaxLifeTasks /\ Connects < MaxLifeConnects /\ ConnectSubmit
  \/ \E t \in 1..MaxTasks : ConnectTimeout(t)
  \/ \E p \in Prompts : Submitted < MaxLifeTasks /\ Submit("set_prompts", p)
  \/ CloseBegin
  \/ CloseTimeout
  \/ CloseStop
  \/ \E t \in 1..(MaxTasks + 1) : ConnectSteps(t) \/ SetPromptsSteps(t) \/ CloseSteps(t)
  \/ \E s \in 1..MaxStreams : RecvTop(s) \/ RecvEnd(s) \/ RecvError(s)

SpecLife == Init /\ [][NextLife]_vars

\* The payload lengths tried: around 0, around 2^16, and around 2^32 - 36, the
\* first length whose RIFF size no longer fits 32 bits.
Lengths ==
  {[hi |-> h, lo |-> l] : h \in {0, 1, Half - 1, Half},
                          l \in {0, 1, 44, Half - 37, Half - 36, Half - 1}}
SampleRates == {8000, 44100, 48000}
ChannelCounts == {1, 2}

\* create_wav_header alone, on a client as constructed
InitWav ==
  /\ Constructed
  /\ wav_args \in [pcm_length : Lengths, sample_rate : SampleRates, channels : ChannelCounts]
  /\ header = Returns(<<>>)

SpecWav == InitWav /\ [][CreateWavHeader]_vars

\* the bytes the remote streams sent that wait for the receive task
RECURSIVE Waiting(_)
Waiting(q) ==
  IF q = <<>> THEN 0
  ELSE (IF Head(q) = <<>> THEN 0 ELSE Head(Head(q)) + Waiting(<<Tail(Head(q))>>))
       + Waiting(Tail(q))

\* the bytes the remote streams have sent so far
Arrived == (nextByte - 1) + Waiting(inbound)

\* One caller thread runs connect(), set_prompts(), set_config(), play(), later
\* stop() and close(), each call after the one before it returned.
PlayScript ==
  \/ Len(tasks) = 0 /\ ConnectSubmit
  \/ Len(tasks) = 1 /\ tasks[1].caller = "ok" /\ Submit("set_prompts", <<"techno">>)
  \/ Len(tasks) = 2 /\ Submit("set_config", "bpm")
  \/ Len(tasks) = 3 /\ Submit("play", "")
  \/ Len(tasks) = 4 /\ Submit("stop", "")
  \/ Len(tasks) = 5 /\ CloseBegin
  \/ CloseStop

\* the steps of coroutine t of that session
PlayTask(t) ==
  \/ ConnectSteps(t) \/ SetPromptsSteps(t) \/ SetConfigSteps(t)
  \/ PlaySteps(t) \/ StopSteps(t) \/ CloseSteps(t)

\* the steps of the loop thread in that session
PlayLoop ==
  \/ \E t \in 1..(MaxTasks + 1) : PlayTask(t)
  \/ RecvTop(1)
  \/ RecvMessage(1)

\* what the remote stream and the clocks of the blocking calls may do
PlayWorld ==
  \/ \E len \in 1..MaxChunkLen : Arrived + len <= MaxPlayBytes /\ Deliver(1, len)
  \/ RecvEnd(1) /\ inbound[recv[1].on] = <<>>
  \/ RecvError(1)
  \/ ConnectTimeout(1)
  \/ CloseTimeout

NextPlay == PlayScript \/ PlayLoop \/ PlayWorld

\* The caller thread is scheduled fairly; the running loop runs every coroutine and
\* the receive task whenever they are ready, and every awaited call of the remote
\* stream returns or raises.  Nothing bounds how long that takes.
SpecPlay ==
  /\ Init /\ [][NextPlay]_vars
  /\ WF_vars(PlayScript)
  /\ \A t \in 1..(MaxTasks + 1) : WF_vars(PlayTask(t))
  /\ WF_vars(RecvTop(1))
  /\ WF_vars(RecvMessage(1))

\* close() of a connected session whose audio sink is running, while control
\* operations are submitted from other caller threads; no connect() is under way.
NextClose ==
  \/ pulls < MaxClosePulls /\ \E f \in 1..MaxFrames : CbStart(f)
  \/ CbLoopTest
  \/ CbFix
  \/ Submitted <= MaxCloseTasks /\ SerialSubmit
  \/ SerialSteps
  \/ CloseBegin
  \/ CloseTimeout
  \/ CloseStop
  \/ \E t \in 1..(MaxTasks + 1) : CloseSteps(t)
  \/ RecvTop(1) \/ RecvEnd(1) \/ RecvError(1)

SpecClose == InitRT /\ [][NextClose]_vars

\* connect() and close() alone, from any caller thread.
NextConnect ==
  \/ ConnectSubmit
  \/ \E t \in 1..MaxTasks : ConnectTimeout(t)
  \/ CloseBegin
  \/ CloseTimeout
  \/ CloseStop
  \/ \E t \in 1..MaxTasks : ConnectSteps(t) \/ CloseSteps(t)
  \/ \E s \in 1..MaxStreams : RecvTop(s) \/ RecvEnd(s) \/ RecvError(s)

SpecConnect == Init /\ [][NextConnect]_vars

\* A connected session that is lost, closed and connected again while control
\* operations are submitted.
NextReconnect ==
  \/ Submitted <= MaxReconnectTasks /\ SerialSubmit
  \/ SerialSteps
  \/ Submitted <= MaxReconnectTasks /\ ConnectSubmit
  \/ \E t \in 1..MaxTasks : ConnectTimeout(t)
  \/ CloseBegin
  \/ CloseTimeout
  \/ CloseStop
  \/ \E t \in 1..(MaxTasks + 1) : ConnectSteps(t) \/ CloseSteps(t)
  \/ \E s \in 1..MaxStreams : RecvTop(s) \/ RecvEnd(s) \/ RecvError(s)

SpecReconnect == InitSerial /\ [][NextReconnect]_vars

\* The ring buffer with its producers and its consumer running side by side: the
\* receive task pushes chunks, a caller thread pushes test tones, the audio callback
\* pulls; no reset, no clear.
InitMix == InitConnected(TRUE) /\ phase = "mixed"

NextMix ==
  \/ pulls < MaxMixPulls /\ \E f \in 1..MaxFrames : CbStart(f)
  \/ CbLoopTest
  \/ CbPop
  \/ CbFix
  \/ \E len \in 1..MaxChunkLen : nextByte + len - 1 <= MaxMixBytes /\ RecvAudio(1, len)
  \/ \E d \in 1..MaxToneFrames : nextByte + ToneLen(d) - 1 <= MaxMixBytes /\ TestAudio(d)

SpecMix == InitMix /\ [][NextMix]_vars

\* ------------------------------------------------------------- claims
\* C1: pushes followed by pulls whose requested sizes sum to exactly the number of
\* pushed bytes: the pull outputs, concatenated, are the pushed bytes in push order,
\* nothing lost, repeated, reordered or padded.
C1_FifoExact ==
  (phase = "pull" /\ cb_pc = "idle" /\ Len(pulled) = nextByte - 1)
    => pulled = Bytes(1, nextByte - 1)

\* Two pulls of one frame each have drained eight pushed bytes (chunks are at most
\* MaxChunkLen bytes, so the first pull took more than one chunk).
C1_Witness ==
  /\ phase = "pull" /\ cb_pc = "idle"
  /\ pulls = 2 /\ nextByte = 9 /\ Len(pulled) = 8

\* C2: the audio callback never raises and hands over exactly bytes_needed bytes,
\* whatever the loop thread (a push, a reset's clear) does meanwhile.
C2_PullNeverRaises ==
  /\ cb_pc # "raised"
  /\ (cb_pc = "idle" /\ pulls > 0) => Len(outdata) = bytes_needed

\* C3: a pull begun after a reset cleared the deque returns no byte that was
\* pushed before that reset (only padding and bytes pushed later).
C3_NoStaleAfterReset ==
  cb_pc = "idle" =>
    \A i \in 1..Len(outdata) : outdata[i] = 0 \/ outdata[i] > cb_mark

\* C4: the step in which a reset() coroutine runs leaves the deque and the
\* recording accumulator empty, in whatever state the session is.
C4_ResetAlwaysClears ==
  [][\A t \in 1..Len(tasks) :
       (tasks[t].op = "reset" /\ tasks[t].pc = "new" /\ tasks'[t].pc # "new")
         => (playback_buffer' = <<>> /\ all_audio_bytes' = <<>>)]_vars

\* the composite update coroutines that began and have not ended
InComposite(t) == tasks[t].op = "update" /\ tasks[t].pc \notin {"new", "done"}

\* C5: between the first and the last step of a composite update no other
\* coroutine takes a step.
C5_CompositeSingleFlight ==
  [][\A u \in 1..Len(tasks) :
       InComposite(u) => \A t \in 1..Len(tasks) : t # u => tasks'[t] = tasks[t]]_vars

\* the names of the calls a coroutine made of the remote stream, in order
RECURSIVE Names(_)
Names(out) == IF out = <<>> THEN <<>> ELSE <<Head(out).m>> \o Names(Tail(out))

\* A composite update that ended on a session that is still connected: no guard
\* skipped a step of it and no call of it failed (in SpecSerial nothing connects).
CompositeRan(t) == tasks[t].op = "update" /\ tasks[t].pc = "done" /\ is_connected

\* C6 as claimed: a composite update(C) calls set-config(C), reset-context and
\* set-prompts(P), in this order and nothing else, for every current prompt list P.
C6_AlwaysThreeCalls ==
  \A t \in 1..Len(tasks) :
    CompositeRan(t) =>
      /\ Names(tasks[t].out) = <<"set_config", "reset_context", "set_prompts">>
      /\ tasks[t].out[1].a = tasks[t].arg
      /\ tasks[t].out[3].a = tasks[t].read[1]

\* the place of a call in the composite's order
Rank(m) == CASE m = "set_config" -> 1 [] m = "reset_context" -> 2 [] m = "set_prompts" -> 3

\* C6 amended: the calls of a composite update(C) are, in this order and each at
\* most once, set-config(C), reset-context, set-prompts(P) with P the non-empty
\* prompt list current when line 159 runs; one that ran to its end on a session
\* still connected made all three when P was non-empty, and only the first two
\* when P was empty.
C6_ConfigResetThenPromptsIfAny ==
  \A t \in 1..Len(tasks) :
    tasks[t].op = "update" =>
      LET out == tasks[t].out IN
      /\ \A i \in 1..Len(out) :
           /\ \A j \in (i + 1)..Len(out) : Rank(out[i].m) < Rank(out[j].m)
           /\ out[i].m = "set_config" => out[i].a = tasks[t].arg
           /\ out[i].m = "set_prompts" =>
                out[i].a # <<>> /\ tasks[t].read = <<out[i].a>>
      /\ CompositeRan(t) =>
           /\ tasks[t].read # <<>>
           /\ Names(out) = IF tasks[t].read[1] = <<>>
                              THEN <<"set_config", "reset_context">>
                              ELSE <<"set_config", "reset_context", "set_prompts">>

\* A composite ran to its end and sent the prompts again while another coroutine had
\* replaced them after the composite was submitted.
C6_Witness ==
  \E t \in 1..Len(tasks) :
    /\ CompositeRan(t)
    /\ Len(tasks[t].out) = 3
    /\ \E u \in (t + 1)..Len(tasks) :
         /\ tasks[u].op = "set_prompts"
         /\ tasks[u].out # <<>>
         /\ tasks[u].arg = tasks[t].out[3].a

\* C7: a coroutine takes its first step only after every coroutine submitted before
\* it has run to its end.
C7_OneAtATime ==
  \A t \in 1..Len(tasks) : \A u \in (t + 1)..Len(tasks) :
    tasks[u].pc # "new" => tasks[t].pc \in {"done", "failed"}

\* C8: close() ends, by returning or by raising, with the loop stopped.
C8_CloseStopsLoop == close_pc \in {"returned", "raised"} => loop = "stopped"

\* C9: once close() stopped the loop no coroutine and no receive task takes a step,
\* and no set_prompts call is ever made of a stream that close() has torn down.
C9_NothingAfterTeardown ==
  /\ [][loop = "stopped" =>
         /\ recv' = recv
         /\ \A t \in 1..Len(tasks) :
              tasks'[t].pc = tasks[t].pc /\ tasks'[t].out = tasks[t].out]_vars
  /\ [](\A t \in 1..Len(tasks) : \A i \in 1..Len(tasks[t].out) :
          tasks[t].out[i].m = "set_prompts" => tasks[t].out[i].st # "closed")

\* close() tore the session's stream down and stopped the loop; a set_prompts
\* submitted by another caller after close() began was never run.
C9_Witness ==
  /\ loop = "stopped"
  /\ \E s \in 1..Len(streams) : streams[s] = "closed"
  /\ \E t \in 1..Len(tasks) : tasks[t].op = "set_prompts" /\ tasks[t].pc = "new"

\* C10: after connect() reported failure (it raised, or its wait timed out) the
\* session is not connected to that attempt's stream and the attempt has no live
\* receive task.
C10_FailedConnectStaysDisconnected ==
  \A t \in 1..Len(tasks) :
    (tasks[t].op = "connect" /\ tasks[t].caller \in {"raised", "timeout"}) =>
      (tasks[t].arg # 0 =>
        /\ ~(is_connected /\ session = tasks[t].arg)
        /\ recv[tasks[t].arg].pc \notin {"ready", "iter"})

\* C11: the step in which a call of the remote stream made by a control coroutine
\* (set_prompts, set_config, play, stop, reset, the composite update) raises leaves
\* the connected flag false; the coroutine still runs to its end and the loop keeps
\* running.
C11_FailedSendMarksLost ==
  [][\A t \in 1..Len(tasks) :
       (~tasks[t].err /\ tasks'[t].err) =>
         /\ ~is_connected'
         /\ tasks'[t].pc # "failed"
         /\ loop' = "running"]_vars

\* C12: the connected flag goes from false to true only in the step of a connect()
\* coroutine in which the stream it asked for is entered (line 52); no control
\* coroutine, receive task or close() step sets it back to true.
C12_NoAutoReconnect ==
  [][(~is_connected /\ is_connected') =>
       \E t \in 1..Len(tasks) :
         /\ tasks[t].op = "connect"
         /\ tasks[t].pc = "enter_wait"
         /\ tasks'[t].pc = "connect_sleep"]_vars

\* The first stream was lost by its receive task and a second connect() connected
\* the session again.
C12_Witness ==
  /\ is_connected /\ session = 2
  /\ recv[1].pc = "done"

\* C13: a set_config() given an unrecognized option has called nothing of the remote
\* stream when its coroutine ends, and its caller was told of the rejection.
C13_UnknownOptionRejectedAndReported ==
  \A t \in 1..Len(tasks) :
    (tasks[t].op = "set_config" /\ tasks[t].arg = "unknown_option" /\ tasks[t].pc = "done")
      => (tasks[t].out = <<>> /\ tasks[t].caller = "raised")

\* C14: the step of connect() that opens the audio sink ends the connect without
\* raising whether or not the device could be opened: a caller still waiting is told
\* of success, the receive task has been created, the connected flag is left as it
\* was, and audio_enabled is true exactly when the sink was opened and started;
\* after every step audio_enabled is true exactly when a sink was opened (a sink
\* that close() has closed since still counts).
C14_SinkFailureNonFatal ==
  [][/\ \A t \in 1..Len(tasks) :
          (tasks[t].op = "connect" /\ tasks[t].pc = "connect_sleep"
             /\ tasks'[t].pc # "connect_sleep") =>
            /\ tasks'[t].pc = "done"
            /\ tasks[t].caller = "wait" => tasks'[t].caller = "ok"
            /\ recv'[tasks[t].arg].pc = "ready"
            /\ is_connected' = is_connected
            /\ audio_enabled' = (playback_stream' = "started")
     /\ audio_enabled' = (playback_stream' \in {"started", "closed"})]_vars

\* connect() returned to its caller on a connected session whose receive task is
\* running, and the audio device could not be opened.
C14_Witness ==
  \E t \in 1..Len(tasks) :
    /\ tasks[t].op = "connect" /\ tasks[t].pc = "done" /\ tasks[t].caller = "ok"
    /\ is_connected /\ session = tasks[t].arg
    /\ recv[tasks[t].arg].pc = "iter"
    /\ ~audio_enabled /\ playback_stream = "none"

\* the 16-bit and 32-bit numbers read back from a header, low byte first
UnpackH(b, i) == b[i] + 256 * b[i + 1]
UnpackI(b, i) == [hi |-> UnpackH(b, i + 2), lo |-> UnpackH(b, i)]

\* create_wav_header was called and returned or raised
HeaderMade == wav_args # <<>> /\ header # Returns(<<>>)

\* what C15 says of the bytes b returned for the arguments a
HeaderAsClaimed(a, b) ==
  /\ Len(b) = 44
  /\ UnpackI(b, 5) = Plus(a.pcm_length, 36)
  /\ UnpackI(b, 41) = a.pcm_length
  /\ UnpackI(b, 29) = Wide(a.sample_rate * a.channels * 2)
  /\ UnpackH(b, 33) = a.channels * 2
  /\ UnpackH(b, 35) = 16

\* C15 as claimed: for every payload length L >= 0 create_wav_header returns exactly
\* 44 bytes whose RIFF size field is 36 + L and data size field L, with byte rate
\* sample_rate * channels * 2, block align channels * 2 and 16 bits per sample.
C15_HeaderForEveryLength ==
  HeaderMade => (~header.raised /\ HeaderAsClaimed(wav_args, header.bytes))

\* C15 amended: for every payload length L with 0 <= L <= 2^32 - 37 the call
\* returns exactly 44 bytes, each in 0..255, with the fields as claimed behind the
\* markers RIFF, WAVEfmt and data; for a longer payload 36 + L does not fit the
\* 32-bit RIFF size field and the call raises struct.error.
C15_HeaderWithin32Bits ==
  HeaderMade =>
    IF FitsI(Plus(wav_args.pcm_length, 36))
      THEN /\ ~header.raised
           /\ HeaderAsClaimed(wav_args, header.bytes)
           /\ \A i \in 1..44 : header.bytes[i] \in 0..255
           /\ SubSeq(header.bytes, 1, 4) = RIFF
           /\ SubSeq(header.bytes, 9, 16) = WAVEfmt
           /\ SubSeq(header.bytes, 37, 40) = DATA
      ELSE header.raised

\* The header of the longest payload a WAV file can declare, 2^32 - 37 bytes.
C15_Witness ==
  /\ HeaderMade
  /\ wav_args.pcm_length = [hi |-> Half - 1, lo |-> Half - 37]
  /\ ~header.raised /\ Len(header.bytes) = 44

\* every byte the remote stream sent is pushed to the deque, unless the session
\* stopped being connected
ChunksQueued ==
  \A n \in 1..MaxPlayBytes : (Arrived >= n) ~> (nextByte > n \/ ~is_connected)

\* once stop() was called, close() comes to an end, by returning or by raising
CloseEnds == (Len(tasks) >= 5) ~> (close_pc \in {"returned", "raised"})

\* C16: in the session of PlayScript every chunk the remote stream sends is
\* eventually pushed to the playback deque while the session stays connected, and
\* once stop() was called its coroutine runs to its end and close() returns.
C16_ChunksQueuedStopCloseComplete ==
  /\ ChunksQueued
  /\ (Len(tasks) >= 5) ~>
       (Len(tasks) >= 5 /\ tasks[5].pc = "done" /\ close_pc = "returned")

\* C17: the step in which the message iteration of a receive task ends or raises
\* while the session is connected sets the connected flag false and ends that
\* receive task, and a receive task that left its iteration never iterates again.
C17_StreamEndIsTerminal ==
  [][\A s \in 1..Len(recv) :
       /\ (recv[s].pc = "iter" /\ recv'[s].pc # "iter" /\ is_connected)
            => (recv'[s].pc = "done" /\ ~is_connected')
       /\ (recv[s].pc = "ready" /\ recv[s].on # 0) => recv'[s].pc # "iter"]_vars

\* the accumulator holds the bytes pushed after position mark, in arrival order
AccumulatedSince(mark) == all_audio_bytes = Bytes(mark + 1, nextByte - 1 - mark)

\* a step of the audio callback
CallbackStep == cb_pc' # cb_pc \/ outdata' # outdata \/ current_data' # current_data

\* the accumulator is only ever appended to or emptied as a whole, never by a pull,
\* and holds a run of the pushed bytes that ends with the byte pushed last
AccumulatorAppendOnly ==
  /\ [][/\ CallbackStep => all_audio_bytes' = all_audio_bytes
        /\ \/ all_audio_bytes' = <<>>
           \/ /\ Len(all_audio_bytes') >= Len(all_audio_bytes)
              /\ SubSeq(all_audio_bytes', 1, Len(all_audio_bytes)) = all_audio_bytes]_vars
  /\ [](\E mark \in 0..MaxBytes : AccumulatedSince(mark))

\* C18: the accumulator always equals the chunks received since reset() last ran or
\* the recording was last cleared, in arrival order; no step of the audio callback
\* changes it, and only a reset or the clear removes bytes from it.
C18_AccumulatorSinceLastReset ==
  /\ [](AccumulatedSince(reset_mark))
  /\ [][/\ CallbackStep => all_audio_bytes' = all_audio_bytes
        /\ Len(all_audio_bytes') < Len(all_audio_bytes) => reset_mark' # reset_mark]_vars

\* C19: the step in which a set_prompts(L) coroutine runs leaves the current prompt
\* list equal to L as a whole, whether or not the session is connected, and calls
\* the remote stream with L only if the session is connected.
C19_PromptsReplacedAlways ==
  [][\A t \in 1..Len(tasks) :
       (tasks[t].op = "set_prompts" /\ tasks[t].pc = "new" /\ tasks'[t].pc # "new") =>
         /\ current_prompts' = tasks[t].arg
         /\ IF Connected
              THEN Names(tasks'[t].out) = <<"set_prompts">> /\ tasks'[t].out[1].a = tasks[t].arg
              ELSE tasks'[t].out = <<>>]_vars

NonPadding(data) == SelectSeq(data, LAMBDA b : b # 0)

\* the bytes a callback in progress has taken from the deque and not yet handed over
InFlight == IF cb_pc \in {"loop", "pop", "fix"} THEN current_data ELSE <<>>

\* the bytes in the deque
Queued == Len(Flatten(playback_buffer))

\* the bytes pushed since the callback in progress (or last) began
PushedMeanwhile == nextByte - cb_began.next

\* a callback has run to its end and none is in progress
PullDone == cb_pc = "idle" /\ pulls > 0

\* the non-padding bytes the pulls returned, the bytes a pull in progress holds and
\* the bytes still queued are, in this order, all pushed bytes in push order
PushOrderKept ==
  NonPadding(pulled) \o InFlight \o Flatten(playback_buffer) = Bytes(1, nextByte - 1)

\* C21 as claimed: under every interleaving of pushes (receive task, test tone) with
\* pulls and no reset or clear, the non-padding bytes the pulls returned followed by
\* the queued bytes are all pushed bytes in push order, and after pull(n) on T queued
\* bytes the deque holds max(0, T - n) bytes plus the bytes pushed meanwhile.
C21_QueuedIsRestPlusPushed ==
  /\ PushOrderKept
  /\ PullDone =>
       Queued = (IF cb_began.queued > bytes_needed THEN cb_began.queued - bytes_needed ELSE 0)
                  + PushedMeanwhile

\* C21 amended: the order statement as claimed, in every state; a pull pads only
\* behind the bytes it took; and after pull(n) on T queued bytes the deque holds
\* T plus the bytes pushed meanwhile minus the k non-padding bytes the pull returned,
\* with min(n, T) <= k <= n: that is max(0, T - n) plus the bytes pushed meanwhile
\* when T >= n, and fewer when an underrunning pull took bytes pushed while it ran.
C21_PushOrderKeptUnderInterleaving ==
  /\ PushOrderKept
  /\ PullDone =>
       LET k == Len(NonPadding(outdata)) IN
       /\ outdata = NonPadding(outdata) \o Zeros(bytes_needed - k)
       /\ Queued = cb_began.queued + PushedMeanwhile - k
       /\ k >= (IF cb_began.queued < bytes_needed THEN cb_began.queued ELSE bytes_needed)
       /\ cb_began.queued >= bytes_needed =>
            Queued = cb_began.queued - bytes_needed + PushedMeanwhile

\* A test tone and a received chunk were pushed; a pull that began on fewer queued
\* bytes than it needed took bytes pushed while it ran, split a chunk and left the
\* chunk's suffix at the front of the deque.
C21_Witness ==
  /\ PullDone
  /\ Len(all_audio_bytes) \in 1..(nextByte - 2)
  /\ cb_began.queued < bytes_needed
  /\ Len(NonPadding(outdata)) = bytes_needed
  /\ PushedMeanwhile > 0
  /\ playback_buffer # <<>>
  /\ Head(playback_buffer)[1] = outdata[bytes_needed] + 1
  /\ Len(playback_buffer) = 1 /\ Queued < PushedMeanwhile

\* C22: in every state the playing flag is true only if the connected flag is true,
\* whatever marked the connection lost or closed (a failed control operation, the
\* receive task, close()) and also when a play() is in flight at that moment.
C22_PlayingOnlyWhileConnected == is_playing => is_connected

\* the receive tasks that were created and have not ended
ActiveLoops == {s \in 1..Len(recv) : recv[s].pc \in {"ready", "iter"}}

\* C23: whatever connect() and close() calls are made, connect() on a connected
\* client or after a lost connection included, at most one receive task is active
\* at any time.
C23_OneReceiveLoop == Cardinality(ActiveLoops) <= 1
====
